---- MODULE Spec2Model ----
(***************************************************************************)
(* Model of backend/src/main.py: the /ws session handler                   *)
(* (websocket_endpoint), the speech-to-text call (transcribe_audio), the   *)
(* reply and speech collaborators (get_llm_response, text_to_speech) and   *)
(* the /test_transcription endpoint, all running as coroutines of one      *)
(* asyncio event loop (uvicorn.run, one process, one thread).              *)
(*                                                                         *)
(* A bytes object is modelled as a run-length list: a sequence of runs     *)
(* [b |-> byte value, n |-> how many times], so that a chunk of 19200      *)
(* bytes (4800 float32 samples, the VAD's minimum) is one run.             *)
(***************************************************************************)
EXTENDS Integers, Sequences, FiniteSets, TLC

\* ------------------------------------------------------------ bounds
NumSessions == 2
MaxEvents == 4
MaxRunLen == 5
MaxPadEvents == 1
VadSpan == 400

\* --------------------------------------------------------- constants
SAMPLE_RATE == 16000
\* MIN_SPEECH_DURATION = 0.3, kept as the exact ratio 3 / 10
MIN_SPEECH_DURATION_NUM == 3
MIN_SPEECH_DURATION_DEN == 10
\* dtype=np.float32: 4 bytes per sample
SAMPLE_WIDTH == 4
\* 262: frame_length = int(0.025 * SAMPLE_RATE), 0.025 kept as 25 / 1000
frame_length == (25 * SAMPLE_RATE) \div 1000

Sessions == 1..NumSessions

VARIABLES
    pc,            \* per session: where the coroutine of websocket_endpoint is suspended
    is_recording,  \* per session: the local is_recording
    audio_chunks,  \* per session: the local audio_chunks (padded chunks, in order)
    turn,          \* per session: the locals of the turn of the last end-of-recording signal
    out,           \* per session: what was sent to the client for that turn, in order
    gone,          \* per session: the client has closed the connection
    client_state,  \* per session: websocket.client_state
    loop_busy,     \* the event loop's thread is inside a call that does not yield
    test_pc,       \* the /test_transcription request: "idle" or "stt"
    issued,        \* who called the speech-to-text model, in call order
    served,        \* whose speech-to-text call returned, in return order
    turn_frags,    \* per session: raw fragments received since the turn began
    cmd_frags,     \* per session: raw fragments received since the last
                   \* start_recording or end-of-recording signal
    last_text,     \* per session: "invalid" or "unknown" when the frame handled
                   \* last was a text frame that was no JSON or no command
    nEvents        \* events so far: frames, disconnects, /test_transcription requests

vars == <<pc, is_recording, audio_chunks, turn, out, gone, client_state, loop_busy,
          test_pc, issued, served, turn_frags, cmd_frags, last_text, nEvents>>

\* ------------------------------------------------------------- bytes
Run(b, n) == [b |-> b, n |-> n]

RECURSIVE ByteLen(_)
ByteLen(d) == IF d = <<>> THEN 0 ELSE d[1].n + ByteLen(Tail(d))

RECURSIVE ByteAt(_, _)
ByteAt(d, i) == IF i <= d[1].n THEN d[1].b ELSE ByteAt(Tail(d), i - d[1].n)

\* b'\x00' * k
Zeros(k) == <<Run(0, k)>>

\* main.py 357-360: remainder = len(data) % 4; data = data + padding
Pad_always(data) == data \o Zeros(SAMPLE_WIDTH - (ByteLen(data) % SAMPLE_WIDTH))
Pad(data) ==
    LET remainder == ByteLen(data) % SAMPLE_WIDTH
    IN  IF remainder # 0 THEN data \o Zeros(SAMPLE_WIDTH - remainder) ELSE data

\* main.py 297: len(data) == 1 and data[0] == 0
IsEndMarker_never(data) == FALSE
IsEndMarker(data) == ByteLen(data) = 1 /\ ByteAt(data, 1) = 0

\* np.frombuffer(chunk, dtype=np.float32) raises unless the size is a multiple of 4
FromBufferOk(chunk) == ByteLen(chunk) % SAMPLE_WIDTH = 0

\* np.concatenate([...]) of the chunks, in list order
RECURSIVE Concatenate(_)
Concatenate(chunks) ==
    IF chunks = <<>> THEN <<>> ELSE chunks[1] \o Concatenate(Tail(chunks))

\* len(complete_audio)
NumSamples(frame) == ByteLen(frame) \div SAMPLE_WIDTH

\* -------------------------------------------------------------- text
\* str.strip(): a text is a sequence of characters, " " the whitespace
RECURSIVE LStrip(_)
LStrip(t) == IF t # <<>> /\ t[1] = " " THEN LStrip(Tail(t)) ELSE t

RECURSIVE RStrip(_)
RStrip(t) ==
    IF t # <<>> /\ t[Len(t)] = " " THEN RStrip(SubSeq(t, 1, Len(t) - 1)) ELSE t

Strip_none(t) == t
Strip(t) == RStrip(LStrip(t))

\* ------------------------------------------------------------ inputs
\* What the speech-to-text model, the reply generator return as text
Texts == {<<>>, <<" ">>, <<"a">>}
\* response.content of the speech synthesizer
Audios == {<<>>, <<Run(1, 4)>>}

\* Binary frames the client of session s sends in the session model: a 6-byte
\* fragment, a 19200-byte fragment (4800 samples), whose bytes have the value s
\* (so that the bytes of two sessions can be told apart), and the
\* end-of-recording signal
Fragments(s) == {<<Run(s, 6)>>, <<Run(s, 19200)>>}
EndSignal == <<Run(0, 1)>>

\* Text frames, by what json.loads and data.get make of them
TextFrame(j, t, a) == [json |-> j, type |-> t, action |-> a]
TextFrames ==
    { TextFrame("object", "debug", "start_recording"),
      TextFrame("object", "debug", "stop_recording"),
      TextFrame("object", "debug", "other"),
      TextFrame("object", "other", "start_recording"),
      TextFrame("invalid", "none", "none"),
      TextFrame("array", "none", "none") }

\* The locals of one turn: what 301 found ("empty": no chunks, "chunks"), the raw
\* fragments the turn received (frags) and those received since the last
\* start_recording or end signal (since), complete_audio (frame), how assembling,
\* the VAD and each call ended, and text, response, audio_response; of
\* is_valid_speech also the step at which it returned or raised (vad_step) and
\* its local frames, each frame as the slice [st, end) of the filtered signal
NoTurn ==
    [signal |-> "none", frags |-> <<>>, since |-> <<>>,
     asm |-> "none", frame |-> <<>>, vad |-> "none",
     vad_step |-> "none", frames |-> <<>>,
     stt |-> "none", text |-> <<>>,
     llm |-> "none", response |-> <<>>,
     tts |-> "none", audio |-> <<>>]

\* main.py 279-284: the state of every session after accept
Init ==
    /\ pc = [s \in Sessions |-> "recv"]
    /\ is_recording = [s \in Sessions |-> FALSE]
    /\ audio_chunks = [s \in Sessions |-> <<>>]
    /\ turn = [s \in Sessions |-> NoTurn]
    /\ out = [s \in Sessions |-> <<>>]
    /\ gone = [s \in Sessions |-> FALSE]
    /\ client_state = [s \in Sessions |-> "CONNECTED"]
    /\ loop_busy = FALSE
    /\ test_pc = "idle"
    /\ issued = <<>>
    /\ served = <<>>
    /\ turn_frags = [s \in Sessions |-> <<>>]
    /\ cmd_frags = [s \in Sessions |-> <<>>]
    /\ last_text = [s \in Sessions |-> "none"]
    /\ nEvents = 0

\* ----------------------------------------------------- the event loop
\* transcribe_audio (143-172) and text_to_speech (211-240) contain no await that
\* yields: the model call and requests.post run on the event loop's thread.
\* get_llm_response awaits aiohttp (194-195) and yields.
Blocking_none(call) == FALSE
Blocking(call) == call \in {"stt", "tts"}

TestClient == NumSessions + 1

\* ------------------------------------------------------------- sends
\* await websocket.send_json(...) / send_bytes(...) of evs, in order. While the
\* client is there each one is delivered. Once the client has closed the
\* connection, whether the server's transport has already seen the close is a
\* matter of timing: a send is still written to the socket, or raises.
SendResults_all(s, evs) == {[sent |-> evs, ok |-> TRUE]}
SendResults(s, evs) ==
    IF gone[s]
    THEN {[sent |-> SubSeq(evs, 1, k), ok |-> (k = Len(evs))] : k \in 0..Len(evs)}
    ELSE {[sent |-> evs, ok |-> TRUE]}

\* One step of a turn of session s: the coroutine goes on to p ("recv": the turn
\* is over, 342-343 clear the chunks), having sent `sent` and with locals t.
TurnStep(s, p, sent, t) ==
    /\ pc' = [pc EXCEPT ![s] = p]
    /\ out' = [out EXCEPT ![s] = @ \o sent]
    /\ turn' = [turn EXCEPT ![s] = t]
    /\ audio_chunks' = IF p = "recv" THEN [audio_chunks EXCEPT ![s] = <<>>]
                                     ELSE audio_chunks
    /\ loop_busy' = Blocking(p)

\* 338-340: except Exception: send_json({"error": str(e)}); when that send raises
\* too, 345-348 clear the chunks and continue
ErrorPath_silent(s, sent, t) == TurnStep(s, "recv", sent, t)
ErrorPath_twice(s, sent, t) == TurnStep(s, "recv", sent \o <<"error", "error">>, t)
ErrorPath(s, sent, t) ==
    \E e \in SendResults(s, <<"error">>) : TurnStep(s, "recv", sent \o e.sent, t)

\* ---------------------------------------------------------------- VAD
\* 244: len(audio_data) < SAMPLE_RATE * MIN_SPEECH_DURATION
TooShort_le(n) == n * MIN_SPEECH_DURATION_DEN <= SAMPLE_RATE * MIN_SPEECH_DURATION_NUM
TooShort_never(n) == FALSE
TooShort(n) == n * MIN_SPEECH_DURATION_DEN < SAMPLE_RATE * MIN_SPEECH_DURATION_NUM

\* np.array_split(ary, sections) for an array of n samples: sections < 1 raises
\* ValueError; else the first n % sections sub-arrays have n // sections + 1
\* samples and the others n // sections, cut at the cumulative sums (div_points)
div_point(n, sections, i) ==
    i * (n \div sections) + (IF i < n % sections THEN i ELSE n % sections)

array_split_fixed(n, sections) ==
    [i \in 1..sections |-> [st |-> (i - 1) * frame_length, end |-> i * frame_length]]

array_split(n, sections) ==
    [i \in 1..sections |-> [st |-> div_point(n, sections, i - 1),
                           end |-> div_point(n, sections, i)]]

\* Every sample of the frame is 0.0 (float32 zero is four zero bytes): the
\* filtered signal is zero and so is its energy
IsSilent(frame) == \A i \in 1..Len(frame) : frame[i].b = 0

VadResult(v, step, frames) == [vad |-> v, vad_step |-> step, frames |-> frames]

\* is_valid_speech (242-274): the length test (244-246), the band-pass filter
\* (249-253, whose scipy calls can raise), the energy test (256-259), the split
\* into frames (262-263) and the speech ratio (264-274). A byte value other than
\* 0 stands for any sample values: the energy and the ratio can come out either
\* side of their thresholds.
VadOutcomes(frame) ==
    LET n == NumSamples(frame)
        sections == n \div frame_length
    IN  IF TooShort(n) THEN {VadResult("reject", "length", <<>>)}
        ELSE {VadResult("raise", "filter", <<>>), VadResult("reject", "energy", <<>>)}
             \cup IF IsSilent(frame) THEN {}
                  ELSE IF sections < 1 THEN {VadResult("raise", "split", <<>>)}
                  ELSE {VadResult(v, "ratio", array_split(n, sections)) :
                            v \in {"accept", "reject"}}

\* 317: if is_valid_speech(complete_audio)
IsValid_any(v) == v.vad # "raise"
IsValid(v) == v.vad = "accept"

\* 307-310: np.concatenate of np.frombuffer of every chunk: raises on a chunk
\* whose size is not a multiple of 4, and can raise as any allocation can
AssembleOutcomes(chunks) ==
    IF \A i \in 1..Len(chunks) : FromBufferOk(chunks[i]) THEN {"ok", "raise"}
                                                        ELSE {"raise"}

\* ---------------------------------------------------- binary frames
\* 297-348: the end-of-recording signal
EndOfRecording(s) ==
    /\ is_recording' = [is_recording EXCEPT ![s] = FALSE]
    /\ turn_frags' = [turn_frags EXCEPT ![s] = <<>>]
    /\ cmd_frags' = [cmd_frags EXCEPT ![s] = <<>>]
    /\ last_text' = [last_text EXCEPT ![s] = "none"]
    /\ out' = [out EXCEPT ![s] = <<>>]
    /\ UNCHANGED <<gone, client_state, test_pc, served>>
    /\ IF audio_chunks[s] = <<>>
       THEN \* 301-303: no chunks collected, continue
            /\ turn' = [turn EXCEPT ![s] = [NoTurn EXCEPT !.signal = "empty"]]
            /\ UNCHANGED <<pc, audio_chunks, loop_busy, issued>>
       ELSE \E a \in AssembleOutcomes(audio_chunks[s]) :
            IF a = "raise"
            THEN \* 345-348: log, clear the chunks, continue
                 /\ turn' = [turn EXCEPT ![s] = [NoTurn EXCEPT !.signal = "chunks",
                                                              !.frags = turn_frags[s],
                                                              !.since = cmd_frags[s],
                                                              !.asm = "raise"]]
                 /\ audio_chunks' = [audio_chunks EXCEPT ![s] = <<>>]
                 /\ UNCHANGED <<pc, loop_busy, issued>>
            ELSE LET frame == Concatenate(audio_chunks[s])
                 IN  \E v \in VadOutcomes(frame) :
                     LET t == [NoTurn EXCEPT !.signal = "chunks",
                                             !.frags = turn_frags[s],
                                             !.since = cmd_frags[s],
                                             !.asm = "ok", !.frame = frame,
                                             !.vad = v.vad, !.vad_step = v.vad_step,
                                             !.frames = v.frames]
                     IN  /\ turn' = [turn EXCEPT ![s] = t]
                         /\ IF IsValid(v)
                            THEN \* 320: text = await transcribe_audio(complete_audio)
                                 /\ pc' = [pc EXCEPT ![s] = "stt"]
                                 /\ loop_busy' = Blocking("stt")
                                 /\ issued' = Append(issued, s)
                                 /\ UNCHANGED audio_chunks
                            ELSE \* rejected: 343; raised: 345-348
                                 /\ audio_chunks' = [audio_chunks EXCEPT ![s] = <<>>]
                                 /\ UNCHANGED <<pc, loop_busy, issued>>

\* 350-365: a regular audio chunk
AudioChunk_keep(s, data) ==
    /\ is_recording' = [is_recording EXCEPT ![s] = TRUE]
    /\ audio_chunks' = [audio_chunks EXCEPT ![s] = Append(@, Pad(data))]
    /\ turn_frags' = [turn_frags EXCEPT ![s] = Append(@, data)]
    /\ cmd_frags' = [cmd_frags EXCEPT ![s] = Append(@, data)]
    /\ last_text' = [last_text EXCEPT ![s] = "none"]
    /\ UNCHANGED <<pc, turn, out, gone, client_state, loop_busy, test_pc, issued, served>>

AudioChunk_shared(s, data) ==
    /\ is_recording' = [is_recording EXCEPT ![s] = TRUE]
    /\ audio_chunks' = [t \in Sessions |->
                           Append(IF is_recording[s] THEN audio_chunks[t] ELSE <<>>,
                                  Pad(data))]
    /\ turn_frags' = [turn_frags EXCEPT ![s] = Append(@, data)]
    /\ cmd_frags' = [cmd_frags EXCEPT ![s] = Append(@, data)]
    /\ last_text' = [last_text EXCEPT ![s] = "none"]
    /\ UNCHANGED <<pc, turn, out, gone, client_state, loop_busy, test_pc, issued, served>>

AudioChunk(s, data) ==
    /\ is_recording' = [is_recording EXCEPT ![s] = TRUE]
    /\ audio_chunks' = [audio_chunks EXCEPT ![s] =
                           Append(IF is_recording[s] THEN @ ELSE <<>>, Pad(data))]
    /\ turn_frags' = [turn_frags EXCEPT ![s] = Append(@, data)]
    /\ cmd_frags' = [cmd_frags EXCEPT ![s] = Append(@, data)]
    /\ last_text' = [last_text EXCEPT ![s] = "none"]
    /\ UNCHANGED <<pc, turn, out, gone, client_state, loop_busy, test_pc, issued, served>>

\* 293-365: message.get('bytes')
HandleBinary(s, data) ==
    IF IsEndMarker(data) THEN EndOfRecording(s) ELSE AudioChunk(s, data)

\* 286-290: the coroutine of s is at await websocket.receive() and the loop can
\* resume it with a frame the client sent
Receiving_any(s) ==
    /\ pc[s] \in {"recv", "stt", "llm", "tts"}
    /\ ~gone[s]
    /\ client_state[s] = "CONNECTED"

Receiving(s) ==
    /\ pc[s] = "recv"
    /\ ~loop_busy
    /\ ~gone[s]
    /\ client_state[s] = "CONNECTED"

ReceiveEndOfRecording(s) ==
    /\ Receiving(s)
    /\ nEvents < MaxEvents
    /\ nEvents' = nEvents + 1
    /\ HandleBinary(s, EndSignal)

ReceiveAudioChunk(s) ==
    /\ Receiving(s)
    /\ nEvents < MaxEvents
    /\ nEvents' = nEvents + 1
    /\ \E data \in Fragments(s) : HandleBinary(s, data)

\* ------------------------------------------------------ text frames
\* 368-383: json.loads, then the debug commands. json.JSONDecodeError is caught
\* at 381; data.get on a JSON value that is no object raises AttributeError,
\* which 385-387 catch: break, and 393-395 close the connection
\* 373-376: is_recording = True; audio_chunks = []
start_recording_keep(s) ==
    /\ is_recording' = [is_recording EXCEPT ![s] = TRUE]
    /\ turn_frags' = [turn_frags EXCEPT ![s] = <<>>]
    /\ cmd_frags' = [cmd_frags EXCEPT ![s] = <<>>]
    /\ last_text' = [last_text EXCEPT ![s] = "none"]
    /\ UNCHANGED <<pc, audio_chunks>>

start_recording(s) ==
    /\ is_recording' = [is_recording EXCEPT ![s] = TRUE]
    /\ audio_chunks' = [audio_chunks EXCEPT ![s] = <<>>]
    /\ turn_frags' = [turn_frags EXCEPT ![s] = <<>>]
    /\ cmd_frags' = [cmd_frags EXCEPT ![s] = <<>>]
    /\ last_text' = [last_text EXCEPT ![s] = "none"]
    /\ UNCHANGED pc

HandleText_fatal(s, m) ==
    /\ UNCHANGED <<turn, out, gone, client_state, loop_busy, test_pc, issued, served>>
    /\ pc' = [pc EXCEPT ![s] = "closed"]
    /\ is_recording' = [is_recording EXCEPT ![s] = FALSE]
    /\ audio_chunks' = [audio_chunks EXCEPT ![s] = <<>>]
    /\ turn_frags' = [turn_frags EXCEPT ![s] = <<>>]
    /\ cmd_frags' = [cmd_frags EXCEPT ![s] = <<>>]
    /\ last_text' = [last_text EXCEPT ![s] = IF m.json = "invalid" THEN "invalid"
                                                                   ELSE "none"]

HandleText(s, m) ==
    /\ UNCHANGED <<turn, out, gone, client_state, loop_busy, test_pc, issued, served>>
    /\ IF m.json = "invalid"
       THEN /\ last_text' = [last_text EXCEPT ![s] = "invalid"]
            /\ UNCHANGED <<pc, is_recording, audio_chunks, turn_frags, cmd_frags>>
       ELSE IF m.json # "object"
       THEN /\ pc' = [pc EXCEPT ![s] = "closed"]
            /\ is_recording' = [is_recording EXCEPT ![s] = FALSE]
            /\ audio_chunks' = [audio_chunks EXCEPT ![s] = <<>>]
            /\ turn_frags' = [turn_frags EXCEPT ![s] = <<>>]
            /\ cmd_frags' = [cmd_frags EXCEPT ![s] = <<>>]
            /\ last_text' = [last_text EXCEPT ![s] = "none"]
       ELSE IF m.type = "debug" /\ m.action = "start_recording"
       THEN start_recording(s)
       ELSE IF m.type = "debug" /\ m.action = "stop_recording"
       THEN /\ is_recording' = [is_recording EXCEPT ![s] = FALSE]
            /\ turn_frags' = [turn_frags EXCEPT ![s] = <<>>]
            /\ last_text' = [last_text EXCEPT ![s] = "none"]
            /\ UNCHANGED <<pc, audio_chunks, cmd_frags>>
       ELSE /\ last_text' = [last_text EXCEPT ![s] = "unknown"]
            /\ UNCHANGED <<pc, is_recording, audio_chunks, turn_frags, cmd_frags>>

ReceiveText(s) ==
    /\ Receiving(s)
    /\ nEvents < MaxEvents
    /\ nEvents' = nEvents + 1
    /\ \E m \in TextFrames : HandleText(s, m)

\* ------------------------------------------------------- disconnect
\* The client closes the connection (at any moment, whatever the server is doing)
ClientDisconnect(s) ==
    /\ pc[s] # "closed"
    /\ ~gone[s]
    /\ nEvents < MaxEvents
    /\ nEvents' = nEvents + 1
    /\ gone' = [gone EXCEPT ![s] = TRUE]
    /\ UNCHANGED <<pc, is_recording, audio_chunks, turn, out, client_state, loop_busy,
                   test_pc, issued, served, turn_frags, cmd_frags, last_text>>

\* 288: websocket.receive() returns the websocket.disconnect message once (no
\* branch of 293/368 takes it); called again it raises, 385-387 break, 393-396
ReceiveDisconnect(s) ==
    /\ pc[s] = "recv"
    /\ ~loop_busy
    /\ gone[s]
    /\ IF client_state[s] = "CONNECTED"
       THEN /\ client_state' = [client_state EXCEPT ![s] = "DISCONNECTED"]
            /\ UNCHANGED <<pc, is_recording, audio_chunks, turn_frags, cmd_frags>>
       ELSE /\ pc' = [pc EXCEPT ![s] = "closed"]
            /\ is_recording' = [is_recording EXCEPT ![s] = FALSE]
            /\ audio_chunks' = [audio_chunks EXCEPT ![s] = <<>>]
            /\ turn_frags' = [turn_frags EXCEPT ![s] = <<>>]
            /\ cmd_frags' = [cmd_frags EXCEPT ![s] = <<>>]
            /\ UNCHANGED client_state
    /\ last_text' = [last_text EXCEPT ![s] = "none"]
    /\ UNCHANGED <<turn, out, gone, loop_busy, test_pc, issued, served, nEvents>>

\* --------------------------------------------------- the turn's calls
\* 320-326: transcribe_audio returns text or raises (170-172)
transcribe_audio_return(s) ==
    /\ pc[s] = "stt"
    /\ served' = Append(served, s)
    /\ UNCHANGED <<is_recording, gone, client_state, test_pc, issued, turn_frags,
                   cmd_frags, last_text, nEvents>>
    /\ \/ ErrorPath(s, <<>>, [turn[s] EXCEPT !.stt = "raise"])
       \/ \E text \in Texts :
          LET t == [turn[s] EXCEPT !.stt = "ok", !.text = text]
          IN  IF Strip(text) = <<>>
              THEN TurnStep(s, "recv", <<>>, t)
              ELSE \E r \in SendResults(s, <<"user_transcription",
                                             "status:generating_response">>) :
                   IF r.ok THEN TurnStep(s, "llm", r.sent, t)
                           ELSE ErrorPath(s, r.sent, t)

\* 326-333: get_llm_response returns the reply or raises (non-200, no choices,
\* the 30 s timeout of 195)
get_llm_response_return(s) ==
    /\ pc[s] = "llm"
    /\ ~loop_busy
    /\ UNCHANGED <<is_recording, gone, client_state, test_pc, issued, served,
                   turn_frags, cmd_frags, last_text, nEvents>>
    /\ \/ ErrorPath(s, <<>>, [turn[s] EXCEPT !.llm = "raise"])
       \/ \E response \in Texts :
          LET t == [turn[s] EXCEPT !.llm = "ok", !.response = response]
          IN  IF Strip(response) = <<>>
              THEN TurnStep(s, "recv", <<>>, t)
              ELSE \E r \in SendResults(s, <<"ai_response",
                                             "status:generating_audio">>) :
                   IF r.ok THEN TurnStep(s, "tts", r.sent, t)
                           ELSE ErrorPath(s, r.sent, t)

\* 333-337: text_to_speech returns the audio or raises (non-200, 233-235)
text_to_speech_return(s) ==
    /\ pc[s] = "tts"
    /\ UNCHANGED <<is_recording, gone, client_state, test_pc, issued, served,
                   turn_frags, cmd_frags, last_text, nEvents>>
    /\ \/ ErrorPath(s, <<>>, [turn[s] EXCEPT !.tts = "raise"])
       \/ \E audio \in Audios :
          LET t == [turn[s] EXCEPT !.tts = "ok", !.audio = audio]
          IN  IF audio = <<>>
              THEN TurnStep(s, "recv", <<>>, t)
              ELSE \E r \in SendResults(s, <<"status:playing_audio", "audio">>) :
                   IF r.ok THEN TurnStep(s, "recv", r.sent, t)
                           ELSE ErrorPath(s, r.sent, t)

\* ------------------------------------------------ /test_transcription
\* 104-141: an async def handler on the same loop; 123-124 call the model
test_transcription_call ==
    /\ test_pc = "idle"
    /\ ~loop_busy
    /\ nEvents < MaxEvents
    /\ nEvents' = nEvents + 1
    /\ test_pc' = "stt"
    /\ loop_busy' = Blocking("stt")
    /\ issued' = Append(issued, TestClient)
    /\ UNCHANGED <<pc, is_recording, audio_chunks, turn, out, gone, client_state,
                   served, turn_frags, cmd_frags, last_text>>

test_transcription_return ==
    /\ test_pc = "stt"
    /\ test_pc' = "idle"
    /\ loop_busy' = FALSE
    /\ served' = Append(served, TestClient)
    /\ UNCHANGED <<pc, is_recording, audio_chunks, turn, out, gone, client_state,
                   issued, turn_frags, cmd_frags, last_text, nEvents>>

\* ------------------------------------------------------ specification
Next ==
    \/ \E s \in Sessions : ReceiveAudioChunk(s)
    \/ \E s \in Sessions : ReceiveEndOfRecording(s)
    \/ \E s \in Sessions : ReceiveText(s)
    \/ \E s \in Sessions : ClientDisconnect(s)
    \/ \E s \in Sessions : ReceiveDisconnect(s)
    \/ \E s \in Sessions : transcribe_audio_return(s)
    \/ \E s \in Sessions : get_llm_response_return(s)
    \/ \E s \in Sessions : text_to_speech_return(s)
    \/ test_transcription_call
    \/ test_transcription_return

Spec == Init /\ [][Next]_vars

\* What the code guarantees of the calls of a turn: transcribe_audio is a local
\* computation and returns; the aiohttp post of 195 has timeout=30, so
\* get_llm_response returns or raises once the loop is free; a
\* /test_transcription call returns likewise. requests.post at 232 has no
\* timeout argument: nothing makes text_to_speech return.
Fairness ==
    /\ \A s \in Sessions : WF_vars(transcribe_audio_return(s))
    /\ \A s \in Sessions : WF_vars(get_llm_response_return(s))
    /\ WF_vars(test_transcription_return)

SpecLive == Spec /\ Fairness

\* A specification for the padding of 357-364 alone: every fragment of one or
\* two runs of up to MaxRunLen bytes 0 or 1, received by a fresh session
PadRuns == {Run(b, n) : b \in {0, 1}, n \in 1..MaxRunLen}
PadInputs == {<<r>> : r \in PadRuns} \cup {<<r1, r2>> : r1 \in PadRuns, r2 \in PadRuns}

ReceiveSmallBinary(s) ==
    /\ Receiving(s)
    /\ nEvents < MaxPadEvents
    /\ nEvents' = nEvents + 1
    /\ \E data \in PadInputs : HandleBinary(s, data)

NextPad == \E s \in Sessions : ReceiveSmallBinary(s)

SpecPad == Init /\ [][NextPad]_vars

\* A specification for is_valid_speech at an end-of-recording signal: session 1
\* has received one fragment of n samples, all 0.0 or not, n within VadSpan of
\* the minimum of 244
MinSamples == (SAMPLE_RATE * MIN_SPEECH_DURATION_NUM) \div MIN_SPEECH_DURATION_DEN
VadLengths == (MinSamples - VadSpan)..(MinSamples + VadSpan)

InitVad ==
    \E n \in VadLengths : \E b \in {0, 1} :
        LET data == <<Run(b, SAMPLE_WIDTH * n)>>
        IN  /\ pc = [s \in Sessions |-> "recv"]
            /\ is_recording = [s \in Sessions |-> s = 1]
            /\ audio_chunks = [s \in Sessions |-> IF s = 1 THEN <<Pad(data)>> ELSE <<>>]
            /\ turn = [s \in Sessions |-> NoTurn]
            /\ out = [s \in Sessions |-> <<>>]
            /\ gone = [s \in Sessions |-> FALSE]
            /\ client_state = [s \in Sessions |-> "CONNECTED"]
            /\ loop_busy = FALSE
            /\ test_pc = "idle"
            /\ issued = <<>>
            /\ served = <<>>
            /\ turn_frags = [s \in Sessions |-> IF s = 1 THEN <<data>> ELSE <<>>]
            /\ cmd_frags = [s \in Sessions |-> IF s = 1 THEN <<data>> ELSE <<>>]
            /\ last_text = [s \in Sessions |-> "none"]
            /\ nEvents = 1

NextVad ==
    \/ \E s \in Sessions : ReceiveEndOfRecording(s)
    \/ \E s \in Sessions : transcribe_audio_return(s)

SpecVad == InitVad /\ [][NextVad]_vars

\* ============================================================ claims
Processing == {"stt", "llm", "tts"}

\* How many calls of the speech-to-text model are executing
NumInferring ==
    Cardinality({s \in Sessions : pc[s] = "stt"}) + (IF test_pc = "stt" THEN 1 ELSE 0)

IsPrefix(a, b) == Len(a) <= Len(b) /\ a = SubSeq(b, 1, Len(a))

\* C1: at most one call of the speech-to-text model executes at any moment,
\* whatever the sessions and /test_transcription do, and the calls complete in
\* the order in which they were issued.
C1_SerializedFifo ==
    /\ NumInferring <= 1
    /\ IsPrefix(served, issued)
    /\ Len(issued) - Len(served) = NumInferring

\* Two different callers have been served and a third call is executing
C1_Witness ==
    /\ Len(served) >= 2
    /\ served[1] # served[2]
    /\ NumInferring = 1

\* C2: while a session waits on transcription, reply generation or speech
\* synthesis, every other session that is at its receive and has a frame coming
\* can have that frame (fragment, end signal, command) received and handled.
C2_OthersNotBlocked ==
    \A s \in Sessions : \A t \in Sessions \ {s} :
        ( /\ pc[s] \in Processing
          /\ pc[t] = "recv"
          /\ ~gone[t]
          /\ client_state[t] = "CONNECTED"
          /\ nEvents < MaxEvents )
        => /\ ENABLED ReceiveAudioChunk(t)
           /\ ENABLED ReceiveEndOfRecording(t)
           /\ ENABLED ReceiveText(t)

ReceiveStop(s) ==
    /\ Receiving(s)
    /\ nEvents' = nEvents + 1
    /\ HandleText(s, TextFrame("object", "debug", "stop_recording"))

\* C3: stop_recording received while recording with buffered fragments empties
\* the buffer and leaves the session idle with no VAD and no transcription; and
\* the VAD never runs for an end signal that no fragment preceded since the last
\* stop_recording (so fragments buffered before the command are never checked).
C3_StopDiscardsFragments ==
    /\ [][\A s \in Sessions :
            (ReceiveStop(s) /\ is_recording[s] /\ audio_chunks[s] # <<>>)
            => /\ audio_chunks'[s] = <<>>
               /\ ~is_recording'[s]
               /\ pc'[s] = "recv"
               /\ turn'[s] = turn[s]]_vars
    /\ [](\A s \in Sessions : turn[s].asm # "none" => turn[s].frags # <<>>)

\* C4: between two transport events, a session that is not recording and has no
\* turn in processing has an empty chunk buffer.
C4_BufferEmptyWhenIdle ==
    \A s \in Sessions :
        (pc[s] = "recv" /\ ~is_recording[s]) => audio_chunks[s] = <<>>

\* The step of s just taken raised while assembling the frame or in the VAD
RaisedBeforeCalls(s) ==
    /\ ReceiveEndOfRecording(s)
    /\ (turn'[s].asm = "raise" \/ turn'[s].vad = "raise")

\* The step of s just taken raised in transcription, reply generation or synthesis
RaisedInCall(s) ==
    \/ transcribe_audio_return(s) /\ turn'[s].stt = "raise"
    \/ get_llm_response_return(s) /\ turn'[s].llm = "raise"
    \/ text_to_speech_return(s) /\ turn'[s].tts = "raise"

BackToIdle(s) ==
    /\ pc'[s] = "recv"
    /\ ~is_recording'[s]
    /\ audio_chunks'[s] = <<>>
    /\ client_state'[s] = "CONNECTED"

EndsWithError(o) == o # <<>> /\ o[Len(o)] = "error"

\* C5 as stated: whichever step of a turn raises (assembling, VAD, transcription,
\* reply generation, speech synthesis), the client (still connected) gets an
\* error event, the buffer is empty and the session is idle and open.
C5_EveryRaiseEmitsError ==
    [][\A s \in Sessions :
        (~gone[s] /\ (RaisedBeforeCalls(s) \/ RaisedInCall(s)))
        => (EndsWithError(out'[s]) /\ BackToIdle(s))]_vars

\* C5 amended: a raise in transcription, reply generation or speech synthesis
\* emits the error event as the turn's last event; a raise while assembling the
\* frame or in the VAD emits nothing; in both cases the buffer is empty and the
\* session is idle and open (for a client that is still connected).
C5_RaiseEndsTurn ==
    [][\A s \in Sessions :
        ~gone[s] =>
            /\ RaisedInCall(s) =>
                  /\ EndsWithError(out'[s])
                  /\ out'[s] = Append(out[s], "error")
                  /\ BackToIdle(s)
            /\ RaisedBeforeCalls(s) => (out'[s] = <<>> /\ BackToIdle(s))]_vars

\* One session's reply generation raised after its transcript was sent, and
\* another session's VAD raised
C5_Witness ==
    \E s \in Sessions : \E t \in Sessions :
        /\ ~gone[s] /\ pc[s] = "recv" /\ turn[s].llm = "raise"
        /\ out[s] = <<"user_transcription", "status:generating_response", "error">>
        /\ audio_chunks[s] = <<>>
        /\ ~gone[t] /\ pc[t] = "recv" /\ turn[t].vad = "raise"
        /\ out[t] = <<>> /\ audio_chunks[t] = <<>>

\* C6: once the client of a session has disconnected while its turn is in
\* processing, no further collaborator call (reply generation, speech
\* synthesis) is issued for that session.
C6_DisconnectAbandonsTurn ==
    [][\A s \in Sessions :
        (gone[s] /\ pc[s] \in Processing)
        => (pc'[s] \in {"llm", "tts"} => pc'[s] = pc[s])]_vars

\* C7: an end-of-recording signal received with no chunk buffered sends no
\* event, assembles nothing, runs no VAD, issues no transcription or
\* collaborator call and leaves the session idle with an empty buffer.
C7_EmptyEndSignal ==
    [][\A s \in Sessions :
        (ReceiveEndOfRecording(s) /\ audio_chunks[s] = <<>>)
        => /\ out'[s] = <<>>
           /\ turn'[s] = [NoTurn EXCEPT !.signal = "empty"]
           /\ issued' = issued
           /\ pc'[s] = "recv"
           /\ ~is_recording'[s]
           /\ audio_chunks'[s] = <<>>]_vars

\* A session got the end-of-recording signal with no chunk buffered
C7_Witness ==
    \E s \in Sessions :
        /\ turn[s].signal = "empty"
        /\ pc[s] = "recv"
        /\ ~is_recording[s]
        /\ out[s] = <<>>

IsBlank(t) == \A i \in 1..Len(t) : t[i] = " "

\* C8: when transcription returns empty or whitespace-only text the turn ends
\* with no reply-generation call, no speech-synthesis call and no event sent,
\* and the session is idle with an empty buffer.
C8_BlankTranscript ==
    [][\A s \in Sessions :
        (transcribe_audio_return(s) /\ turn'[s].stt = "ok" /\ IsBlank(turn'[s].text))
        => /\ out'[s] = <<>>
           /\ pc'[s] = "recv"
           /\ turn'[s].llm = "none"
           /\ turn'[s].tts = "none"
           /\ ~is_recording'[s]
           /\ audio_chunks'[s] = <<>>]_vars

\* A turn whose transcription returned one blank
C8_Witness ==
    \E s \in Sessions :
        /\ turn[s].stt = "ok"
        /\ turn[s].text = <<" ">>
        /\ pc[s] = "recv"
        /\ out[s] = <<>>

\* pad(F1) ++ ... ++ pad(Fn), built from the last fragment backwards
Padded(f) ==
    IF ByteLen(f) % 4 = 0 THEN f ELSE f \o <<Run(0, 4 - (ByteLen(f) % 4))>>

RECURSIVE PaddedConcat(_)
PaddedConcat(fs) ==
    IF fs = <<>> THEN <<>>
    ELSE PaddedConcat(SubSeq(fs, 1, Len(fs) - 1)) \o Padded(fs[Len(fs)])

C10_StoredPadded ==
    \A s \in Sessions :
        /\ Len(audio_chunks[s]) = Len(turn_frags[s])
        /\ \A i \in 1..Len(audio_chunks[s]) :
              LET d == turn_frags[s][i]
                  c == audio_chunks[s][i]
                  L == ByteLen(d)
                  k == (4 - (L % 4)) % 4
              IN  /\ ByteLen(c) = L + k
                  /\ ByteLen(c) % 4 = 0
                  /\ \A j \in 1..L : ByteAt(c, j) = ByteAt(d, j)
                  /\ \A j \in (L + 1)..(L + k) : ByteAt(c, j) = 0

\* A 6-byte fragment is stored as 8 bytes, the last two zero; a 4-byte one as is
C10_Witness ==
    \E s \in Sessions :
        /\ Len(audio_chunks[s]) = 1
        /\ ByteLen(turn_frags[s][1]) = 6
        /\ ByteAt(turn_frags[s][1], 6) = 1
        /\ ByteLen(audio_chunks[s][1]) = 8
        /\ ByteAt(audio_chunks[s][1], 6) = 1
        /\ ByteAt(audio_chunks[s][1], 7) = 0
        /\ ByteAt(audio_chunks[s][1], 8) = 0

\* C11: is_valid_speech returns false, at its length test, for every frame of
\* fewer than 4800 samples, and never returns at the length test for a frame of
\* 4800 samples or more; a turn whose frame has fewer than 4800 samples never
\* reaches transcription.
C11_LengthTest ==
    \A s \in Sessions :
        turn[s].asm = "ok" =>
            /\ ByteLen(turn[s].frame) < 4 * 4800 =>
                  /\ turn[s].vad = "reject"
                  /\ turn[s].vad_step = "length"
                  /\ turn[s].stt = "none"
                  /\ pc[s] # "stt"
            /\ ByteLen(turn[s].frame) >= 4 * 4800 => turn[s].vad_step # "length"

\* A frame of 4799 samples was rejected at the length test
C11_Witness ==
    \E s \in Sessions :
        /\ turn[s].asm = "ok"
        /\ ByteLen(turn[s].frame) = 4 * 4799
        /\ turn[s].vad = "reject"
        /\ turn[s].vad_step = "length"
        /\ pc[s] = "recv"
        /\ audio_chunks[s] = <<>>

ReceiveInvalid(s) ==
    /\ Receiving(s)
    /\ nEvents' = nEvents + 1
    /\ HandleText(s, TextFrame("invalid", "none", "none"))

\* C12: a text frame that is not valid JSON is ignored: the recording flag and
\* the chunk buffer are as before, no event is sent, and the session is still
\* open and at its receive.
C12_InvalidJsonIgnored ==
    [][\A s \in Sessions :
        ReceiveInvalid(s)
        => /\ is_recording'[s] = is_recording[s]
           /\ audio_chunks'[s] = audio_chunks[s]
           /\ out' = out
           /\ turn' = turn
           /\ pc'[s] = "recv"
           /\ ~loop_busy'
           /\ ~gone'[s]
           /\ client_state'[s] = "CONNECTED"]_vars

\* A recording session with a buffered chunk has just handled a text frame that
\* is no JSON, and is at its receive with its chunk
C12_Witness ==
    \E s \in Sessions :
        /\ last_text[s] = "invalid"
        /\ is_recording[s]
        /\ Len(audio_chunks[s]) = 1
        /\ pc[s] = "recv"
        /\ client_state[s] = "CONNECTED"
        /\ ~gone[s]

\* C13: the reply-generation and the speech-synthesis call are each bounded by
\* an enforced timeout, so a call whose collaborator never responds fails and
\* every turn that enters processing eventually leaves it.
C13_TurnLeavesProcessing ==
    \A s \in Sessions : (pc[s] \in Processing) ~> (pc[s] \notin Processing)

\* The sessions whose reception state (flag, buffer, fragments received, the
\* connection's state) a step changes
Received ==
    {s \in Sessions : \/ is_recording'[s] # is_recording[s]
                      \/ turn_frags'[s] # turn_frags[s]
                      \/ cmd_frags'[s] # cmd_frags[s]
                      \/ last_text'[s] # last_text[s]
                      \/ client_state'[s] # client_state[s]}

\* How many speech-to-text calls of s have been issued and have returned
RECURSIVE Count(_, _)
Count(q, s) ==
    IF q = <<>> THEN 0 ELSE (IF q[1] = s THEN 1 ELSE 0) + Count(Tail(q), s)

\* C14: a session handles its events one at a time: while its turn is in
\* processing no event of that session is received or handled (its flag, its
\* fragments and its connection state stay as they are, its buffer changes only
\* by being cleared when the turn ends, no further turn begins), and at most one
\* turn of a session is in flight.
C14_OneEventAtATime ==
    /\ [][\A s \in Sessions :
            pc[s] \in Processing
            => /\ s \notin Received
               /\ audio_chunks'[s] = audio_chunks[s]
                  \/ (pc'[s] = "recv" /\ audio_chunks'[s] = <<>>)
               /\ turn'[s].signal = turn[s].signal
               /\ turn'[s].frame = turn[s].frame
               /\ Count(issued', s) = Count(issued, s)]_vars
    /\ [](\A s \in Sessions :
            /\ Count(issued, s) - Count(served, s) = (IF pc[s] = "stt" THEN 1 ELSE 0)
            /\ pc[s] \in Processing => (turn[s].vad = "accept" /\ ~is_recording[s]))

\* A session is in speech synthesis, its client still there and with events to
\* send, after another session has had a fragment received
C14_Witness ==
    \E s \in Sessions : \E t \in Sessions \ {s} :
        /\ pc[s] = "tts"
        /\ ~gone[s]
        /\ nEvents < MaxEvents
        /\ turn_frags[t] # <<>>

\* The events of a turn that runs to its end, in order
TurnEvents ==
    <<"user_transcription", "status:generating_response", "ai_response",
      "status:generating_audio", "status:playing_audio", "audio">>

Has(o, e) == \E i \in 1..Len(o) : o[i] = e

\* C15: the events sent for one turn are a prefix of user_transcription, status
\* generating_response, ai_response, status generating_audio, status
\* playing_audio, binary audio, optionally followed by exactly one error event,
\* which is then the last; ai_response is sent only for a reply that is not
\* blank, and binary audio only for non-empty synthesized audio, right after
\* status playing_audio.
C15_EventOrder ==
    \A s \in Sessions :
        LET o == out[s]
            body == IF EndsWithError(o) THEN SubSeq(o, 1, Len(o) - 1) ELSE o
        IN  /\ IsPrefix(body, TurnEvents)
            /\ ~Has(body, "error")
            /\ Has(o, "user_transcription") =>
                  (turn[s].stt = "ok" /\ ~IsBlank(turn[s].text))
            /\ Has(o, "ai_response") =>
                  (turn[s].llm = "ok" /\ ~IsBlank(turn[s].response))
            /\ \A i \in 1..Len(o) :
                  o[i] = "audio" =>
                      /\ turn[s].tts = "ok"
                      /\ turn[s].audio # <<>>
                      /\ i > 1
                      /\ o[i - 1] = "status:playing_audio"

\* One turn ran to its end and sent all six events; another sent the transcript
\* and the status, then the error event
C15_Witness ==
    \E s \in Sessions : \E t \in Sessions :
        /\ out[s] = TurnEvents
        /\ pc[s] = "recv"
        /\ out[t] = <<"user_transcription", "status:generating_response", "error">>

\* C16: when the VAD rejects the frame of a turn, the turn is a silent no-op: no
\* transcription, reply-generation or speech-synthesis call, no event (no error
\* event either), the fragments collected are discarded and the session is idle.
C16_RejectedTurnSilent ==
    /\ [][\A s \in Sessions :
            (ReceiveEndOfRecording(s) /\ turn'[s].vad = "reject")
            => /\ out'[s] = <<>>
               /\ issued' = issued
               /\ loop_busy' = loop_busy
               /\ pc'[s] = "recv"
               /\ ~is_recording'[s]
               /\ audio_chunks'[s] = <<>>]_vars
    /\ [](\A s \in Sessions :
            turn[s].vad = "reject"
            => /\ turn[s].stt = "none"
               /\ turn[s].llm = "none"
               /\ turn[s].tts = "none"
               /\ out[s] = <<>>)

\* A frame of 4800 samples or more went through the whole of is_valid_speech
\* and was rejected on its speech ratio
C16_Witness ==
    \E s \in Sessions :
        /\ turn[s].vad = "reject"
        /\ turn[s].vad_step = "ratio"
        /\ ByteLen(turn[s].frame) >= 4 * 4800
        /\ pc[s] = "recv"
        /\ out[s] = <<>>
        /\ audio_chunks[s] = <<>>
        /\ ~is_recording[s]

ReceiveStart(s) ==
    /\ Receiving(s)
    /\ nEvents' = nEvents + 1
    /\ HandleText(s, TextFrame("object", "debug", "start_recording"))

\* C17: start_recording, whatever the flag and the buffer of the session that
\* handles it, empties the buffer and sets the session recording; so the frame
\* assembled at an end signal is made of fragments received after the last
\* start_recording only (the padded concatenation of the last of them).
C17_StartEmptiesBuffer ==
    /\ [][\A s \in Sessions :
            ReceiveStart(s)
            => /\ audio_chunks'[s] = <<>>
               /\ is_recording'[s]
               /\ pc'[s] = "recv"
               /\ out' = out
               /\ turn' = turn]_vars
    /\ [](\A s \in Sessions :
            turn[s].asm = "ok"
            => \E k \in 1..Len(turn[s].since) :
                   turn[s].frame =
                       PaddedConcat(SubSeq(turn[s].since, k, Len(turn[s].since))))

\* A session that has assembled a frame is recording with an empty buffer, which
\* only start_recording brings about (a fragment sets the flag and is buffered)
C17_Witness ==
    \E s \in Sessions :
        /\ is_recording[s]
        /\ audio_chunks[s] = <<>>
        /\ turn[s].asm = "ok"
        /\ pc[s] = "recv"
        /\ nEvents >= 3

AllZero(d) == \A i \in 1..Len(d) : d[i].n = 0 \/ d[i].b = 0

\* C19: is_valid_speech never computes the percentile or the speech ratio over
\* zero frames: the split into frames is reached with 4800 samples or more only
\* and yields at least one frame (it never fails for want of a section), and an
\* all-zero frame never reaches it: when is_valid_speech returns for such a
\* frame, it returns false at the length test or at the energy test.
C19_NeverZeroFrames ==
    \A s \in Sessions :
        turn[s].asm = "ok" =>
            /\ turn[s].vad_step # "split"
            /\ turn[s].vad_step = "ratio" =>
                  /\ Len(turn[s].frames) >= 1
                  /\ ByteLen(turn[s].frame) >= 4 * 4800
            /\ turn[s].vad_step # "ratio" => turn[s].frames = <<>>
            /\ AllZero(turn[s].frame) =>
                  /\ turn[s].vad_step \notin {"split", "ratio"}
                  /\ turn[s].vad # "accept"
                  /\ turn[s].vad # "raise" =>
                        (turn[s].vad = "reject" /\ turn[s].vad_step \in {"length", "energy"})

\* A frame of 4800 samples, all 0.0, was rejected at the energy test
C19_Witness ==
    \E s \in Sessions :
        /\ turn[s].asm = "ok"
        /\ AllZero(turn[s].frame)
        /\ ByteLen(turn[s].frame) = 4 * 4800
        /\ turn[s].vad = "reject"
        /\ turn[s].vad_step = "energy"
        /\ turn[s].frames = <<>>

\* A step of session t: a frame or the disconnect of its client received, its
\* client closing, or a call of its turn returning
StepOf(t) ==
    \/ ReceiveAudioChunk(t)
    \/ ReceiveEndOfRecording(t)
    \/ ReceiveText(t)
    \/ ClientDisconnect(t)
    \/ ReceiveDisconnect(t)
    \/ transcribe_audio_return(t)
    \/ get_llm_response_return(t)
    \/ text_to_speech_return(t)

\* Every byte of d is 0 (padding) or has the value that marks session s
BytesOf(d, s) == \A i \in 1..Len(d) : d[i].b \in {0, s}

\* C20: a session's state is its own: the recording flag and the chunk buffer of
\* a session change in steps of that session only (no event, error, turn or
\* disconnect of another session and no /test_transcription request changes
\* them), and the buffer and the frame of a session hold bytes received on that
\* session only.
C20_SessionOwnsState ==
    /\ [][\A s \in Sessions :
            (is_recording'[s] # is_recording[s] \/ audio_chunks'[s] # audio_chunks[s])
            => StepOf(s)]_vars
    /\ [](\A s \in Sessions :
            /\ BytesOf(turn[s].frame, s)
            /\ \A i \in 1..Len(audio_chunks[s]) : BytesOf(audio_chunks[s][i], s))

\* The frame of one session is with the reply generator while another session is
\* recording with a chunk of its own buffered
C20_Witness ==
    \E s \in Sessions : \E t \in Sessions \ {s} :
        /\ pc[s] = "llm"
        /\ turn[s].frame = <<Run(s, 19200)>>
        /\ is_recording[t]
        /\ audio_chunks[t] = <<<<Run(t, 19200)>>>>

\* A text frame that is valid JSON and no control command: an object with
\* another type or action, or a value that is no object
Unrecognised(m) ==
    /\ m.json # "invalid"
    /\ ~(m.json = "object" /\ m.type = "debug"
         /\ m.action \in {"start_recording", "stop_recording"})

ReceiveUnrecognised(s) ==
    /\ Receiving(s)
    /\ nEvents' = nEvents + 1
    /\ \E m \in {f \in TextFrames : Unrecognised(f)} : HandleText(s, m)

\* C21: a text frame that is valid JSON but no recognised control command (an
\* object with another type or action, or a JSON value that is no object)
\* leaves the recording flag and the chunk buffer as they are and does not end
\* the session, which is still open and at its receive.
C21_UnrecognisedJsonIgnored ==
    [][\A s \in Sessions :
        ReceiveUnrecognised(s)
        => /\ is_recording'[s] = is_recording[s]
           /\ audio_chunks'[s] = audio_chunks[s]
           /\ pc'[s] = "recv"
           /\ client_state'[s] = "CONNECTED"]_vars

====
